---- MODULE Spec2Model ----
(***************************************************************************)
(* A model of cryptenv (rgodha24/cryptenv): the encrypted secret store of  *)
(* src/store.rs, the configuration of src/config.rs, the project           *)
(* resolution of src/project.rs and the commands of src/main.rs.           *)
(*                                                                         *)
(* Strings whose contents the code inspects (paths, project keys, secret   *)
(* names) are sequences of one-character strings, so that prefix tests,    *)
(* path parsing and case conversion are computed, not assumed.             *)
(***************************************************************************)
EXTENDS Integers, Sequences, FiniteSets, TLC

VARIABLES
    config,     \* Config::read(): [dirs, profile, project]
    cwd,        \* std::env::current_dir()
    env,        \* names of the variables set in the calling shell (std::env::vars)
    arg,        \* the command's argument (a project name), or NoArg
    out,        \* what the last command computed or printed, and its exit status
    disk,       \* contents of <data_dir>/cryptenv/store.json
    keyring,    \* the OS keyring entry ("cryptenv", "key") and its availability
    keyfile,    \* contents of <data_dir>/cryptenv/key
    proc,       \* the state of each running cryptenv process
    hist        \* history: keys generated, the last add, the last completed save

vars == <<config, cwd, env, arg, out, disk, keyring, keyfile, proc, hist>>

cfgVars == <<config, cwd, env, arg>>
storeVars == <<disk, keyring, keyfile, proc, hist>>

----------------------------------------------------------------------------
(* Bounds of the model.                                                    *)

MaxRoots == 2          \* entries of `dirs` in the config
MaxDepth == 3          \* components of cwd below "/"
MaxProfileRefs == 2    \* profile names a project lists

----------------------------------------------------------------------------
(* Strings and options.                                                    *)

None == [some |-> FALSE]
Some(v) == [some |-> TRUE, value |-> v]

IsPrefix(p, s) == Len(p) <= Len(s) /\ SubSeq(s, 1, Len(p)) = p

Range(f) == {f[x] : x \in DOMAIN f}

SeqsUpTo(S, n) == UNION {[1..k -> S] : k \in 0..n}

EmptyMap == [x \in {} |-> x]

\* No argument on the command line; nothing run yet.
NoArg == <<"-">>
NoOut == [op |-> "none"]

PanicExit == 101    \* exit status of a Rust process that panicked (a failed expect)

----------------------------------------------------------------------------
(* Paths: std::path::Path as used by Project::get_project_dir.             *)

Slash == "/"
RootDir == <<"/">>
CurDir == <<".">>

\* The text of `s` up to its first "/", and what follows that "/".
RECURSIVE Split(_)
Split(s) ==
    IF s = <<>> THEN << <<>> >>
    ELSE IF Head(s) = Slash THEN << <<>> >> \o Split(Tail(s))
    ELSE LET rest == Split(Tail(s))
         IN  << <<Head(s)>> \o Head(rest) >> \o Tail(rest)

\* Path::components(): a leading "/" is the RootDir component, empty segments
\* (repeated or trailing separators) and non-leading "." segments are dropped.
Components(s) ==
    LET segs == Split(s)
        abs == s # <<>> /\ Head(s) = Slash
        lead == IF ~abs /\ Head(segs) = CurDir THEN <<CurDir>> ELSE <<>>
        normal == SelectSeq(segs, LAMBDA c : c # <<>> /\ c # CurDir)
    IN  (IF abs THEN <<RootDir>> ELSE lead) \o normal

\* A raw string prefix test, which Path::starts_with is not.
StartsWithRaw(path, base) == IsPrefix(base, path)

\* Path::starts_with: whole components of `base` are a prefix of those of `path`.
StartsWith(path, base) == IsPrefix(Components(base), Components(path))

HomeDir == <<"/", "w">>

\* shellexpand::tilde: a leading "~" that is the whole string or is followed
\* by "/" becomes the home directory.
Tilde(s) ==
    IF s = <<"~">> \/ IsPrefix(<<"~", "/">>, s) THEN HomeDir \o Tail(s) ELSE s

\* Config::dirs
Dirs(c) == [i \in DOMAIN c.dirs |-> Tilde(c.dirs[i])]

\* The loop of Project::get_project_dir over config.dirs(): the first dir that
\* cwd starts with decides; `?` returns None from the function when cwd has no
\* component at index original_len.
RECURSIVE GetProjectDirLoop(_, _)
GetProjectDirLoop(dirs, current_dir) ==
    IF dirs = <<>> THEN None
    ELSE LET dir == Head(dirs)
             original_len == Len(Components(dir))
             cur == Components(current_dir)
         IN  IF StartsWith(current_dir, dir)
             THEN IF original_len < Len(cur)
                  THEN Some(cur[original_len + 1])
                  ELSE None
             ELSE GetProjectDirLoop(Tail(dirs), current_dir)

\* Project::get_project_dir
GetProjectDir(c, current_dir) == GetProjectDirLoop(Dirs(c), current_dir)

----------------------------------------------------------------------------
(* The secret store (src/store.rs): cipher, key storage, store file.       *)

KeyLen == 32      \* bytes of an AES-256 key, the length get_key asks of the key file
NonceLen == 12    \* bytes of the AES-GCM nonce that starts every stored value

Ok(v) == [ok |-> TRUE, value |-> v]
Err(e) == [ok |-> FALSE, error |-> e]

Keys == {"k1", "k2"}           \* values of a 256-bit key
Nonces == {"n1", "n2"}         \* values of a 96-bit nonce
Plaintexts == {"p", "q"}       \* secret values given to `add`

\* str::as_bytes: the bytes of a string are valid UTF-8; a secret value of the
\* model is one byte long.
AsBytes(text) == [utf8 |-> TRUE, text |-> text, len |-> 1]

\* String::from_utf8
FromUtf8(bytes) == IF bytes.utf8 THEN Ok(bytes.text) ELSE Err("Utf8")

\* Aes256Gcm::encrypt: the output opens only under the same key and nonce.
Seal(key, nonce, bytes) ==
    [key |-> key, nonce |-> nonce, bytes |-> bytes, len |-> bytes.len]

\* Aes256Gcm::decrypt: the tag check, then the plaintext bytes.
Open(key, nonce, sealed) ==
    IF sealed.key = key /\ sealed.nonce = nonce THEN Ok(sealed.bytes) ELSE Err("Crypto")

\* [nonce.as_slice(), &encrypted].concat()
Concat(nonce, sealed) == [len |-> NonceLen + sealed.len, nonce |-> nonce, rest |-> sealed]

\* BASE64_STANDARD.encode / decode: only the image of encode decodes.
B64Encode(data) == [b64 |-> TRUE, data |-> data]
B64Decode(str) == IF str.b64 THEN Ok(str.data) ELSE Err("InvalidBase64")

NoSecret == "none"

\* A file of the data directory: absent, or present with its contents.
NoFile == [exists |-> FALSE, text |-> <<>>]
File(text) == [exists |-> TRUE, text |-> text]

\* The key file: absent, or present with `len` bytes (a key when len = KeyLen).
NoKeyFile == [exists |-> FALSE, len |-> 0, key |-> NoSecret]
KeyFile(key) == [exists |-> TRUE, len |-> KeyLen, key |-> key]

\* get_key: the keyring entry first, then the key file if it holds KeyLen bytes.
GetKey(kr, kf) ==
    IF kr.readable /\ kr.secret # NoSecret THEN Ok(kr.secret)
    ELSE IF kf.exists /\ kf.len = KeyLen THEN Ok(kf.key)
    ELSE Err("no encryption key found")

\* store_key with no read-back: a set_secret that reports success is trusted.
StoreKeyNoVerify(kr, kf, key) ==
    IF kr.writable
    THEN [keyring |-> [kr EXCEPT !.secret = key], keyfile |-> kf]
    ELSE [keyring |-> kr, keyfile |-> KeyFile(key)]

\* store_key: set_secret on the keyring, verified by get_secret; when either
\* fails the key is written to the key file. Yields the storage afterwards.
StoreKey(kr, kf, key) ==
    LET set == kr.writable
        kr2 == IF set THEN [kr EXCEPT !.secret = key] ELSE kr
        verify == set /\ kr2.readable
    IN  IF verify THEN [keyring |-> kr2, keyfile |-> kf]
        ELSE [keyring |-> kr2, keyfile |-> KeyFile(key)]

\* get_or_create_key that never looks for an existing key.
GetOrCreateKeyAlways(kr, kf, fresh) ==
    LET st == StoreKey(kr, kf, fresh)
    IN  [key |-> fresh, generated |-> TRUE, keyring |-> st.keyring, keyfile |-> st.keyfile]

\* get_or_create_key: the key get_key finds, else `fresh` (generate_key)
\* stored by store_key.
GetOrCreateKey(kr, kf, fresh) ==
    LET found == GetKey(kr, kf)
    IN  IF found.ok
        THEN [key |-> found.value, generated |-> FALSE, keyring |-> kr, keyfile |-> kf]
        ELSE LET st == StoreKey(kr, kf, fresh)
             IN  [key |-> fresh, generated |-> TRUE,
                  keyring |-> st.keyring, keyfile |-> st.keyfile]

\* encrypt: the stored string for `value`, and the key storage afterwards.
Encrypt(kr, kf, fresh, nonce, value) ==
    LET k == GetOrCreateKey(kr, kf, fresh)
    IN  [stored |-> B64Encode(Concat(nonce, Seal(k.key, nonce, AsBytes(value)))),
         key |-> k.key, generated |-> k.generated,
         keyring |-> k.keyring, keyfile |-> k.keyfile]

\* decrypt with the tag check before the length test: data too short to hold
\* a nonce is reported as an authentication failure.
DecryptTagBeforeLength(kr, kf, stored) ==
    LET key == GetKey(kr, kf)
        data == B64Decode(stored)
    IN  IF ~key.ok THEN Err("Keyring")
        ELSE IF ~data.ok THEN Err("InvalidBase64")
        ELSE LET decrypted == Open(key.value, data.value.nonce, data.value.rest)
             IN  IF ~decrypted.ok THEN Err("Crypto")
                 ELSE IF data.value.len < NonceLen THEN Err("InvalidDataLength")
                 ELSE FromUtf8(decrypted.value)

\* decrypt: key, base64, length, tag and UTF-8, in this order.
Decrypt(kr, kf, stored) ==
    LET key == GetKey(kr, kf)
        data == B64Decode(stored)
    IN  IF ~key.ok THEN Err("Keyring")
        ELSE IF ~data.ok THEN Err("InvalidBase64")
        ELSE IF data.value.len < NonceLen THEN Err("InvalidDataLength")
        ELSE LET decrypted == Open(key.value, data.value.nonce, data.value.rest)
             IN  IF ~decrypted.ok THEN Err("Crypto")
                 ELSE FromUtf8(decrypted.value)

\* char::to_uppercase on the letters of the model's names.
UpperChar(ch) ==
    CASE ch = "x" -> "X"
      [] ch = "y" -> "Y"
      [] OTHER -> ch

\* str::to_uppercase
ToUpper(str) == [i \in DOMAIN str |-> UpperChar(str[i])]

\* Store::get: an exact lookup.
StoreGet(svars, name) ==
    IF name \in DOMAIN svars THEN Some(svars[name]) ELSE None

\* The store file: serde_json::to_string(&Store) is "{", one entry per secret
\* in the map's iteration order, "}". Every order of the entries is possible.
Orders(S) == {o \in [1..Cardinality(S) -> S] : Range(o) = S}

OpenBrace == <<"{">>
CloseBrace == <<"}">>

Serializations(svars) ==
    {<<OpenBrace>> \o [i \in DOMAIN o |-> <<o[i], svars[o[i]]>>] \o <<CloseBrace>> :
        o \in Orders(DOMAIN svars)}

\* serde_json::from_str: the text parses when it is a complete object.
Parses(text) ==
    /\ Len(text) >= 2
    /\ text[1] = OpenBrace
    /\ text[Len(text)] = CloseBrace
    /\ \A i \in 2..(Len(text) - 1) : Len(text[i]) = 2

ParsedVars(text) ==
    LET names == {text[i][1] : i \in 2..(Len(text) - 1)}
    IN  [n \in names |->
            LET last == CHOOSE i \in 2..(Len(text) - 1) :
                            text[i][1] = n /\ \A j \in 2..(Len(text) - 1) :
                                                  text[j][1] = n => j <= i
            IN  text[last][2]]

\* Store::read: an absent file is the empty store; an unreadable or
\* unparsable file panics.
StoreRead(file) ==
    IF ~file.exists THEN Ok(EmptyMap)
    ELSE IF Parses(file.text) THEN Ok(ParsedVars(file.text))
    ELSE Err("Could not parse store file")

----------------------------------------------------------------------------
(* The processes running `cryptenv add` and `cryptenv get`. Each command   *)
(* is a sequence of steps at its reads and writes of the store file.       *)

MaxRuns == 2      \* commands one process runs, one after the other

Procs == {"p1", "p2"}

AddNames == {<<"x">>, <<"Y">>}

\* How a run ended: "ok" (exit 0), "failed" (exit 1), "panic", "killed".
NoRes == [status |-> "none"]

\* History: the number of keys generated, the last Store::add, and the process
\* whose save_to_disk returned last.
NoHist == [generated |-> 0, last |-> [proc |-> "none"], saver |-> "none"]

IdleProc(runs) ==
    [pc |-> "idle", cmd |-> "none", name |-> <<>>, value |-> "", overwrite |-> FALSE,
     vars |-> EmptyMap, loaded |-> EmptyMap, text |-> <<>>, pos |-> 0,
     runs |-> runs, res |-> NoRes]

\* main: the command line of one run.
Start(p) ==
    /\ proc[p].pc = "idle"
    /\ proc[p].runs > 0
    /\ \/ \E n \in AddNames, v \in Plaintexts, o \in BOOLEAN :
            proc' = [proc EXCEPT ![p] =
                        [IdleProc(proc[p].runs - 1) EXCEPT
                            !.pc = "read", !.cmd = "add", !.name = n,
                            !.value = v, !.overwrite = o]]
       \/ \E n \in AddNames :
            proc' = [proc EXCEPT ![p] =
                        [IdleProc(proc[p].runs - 1) EXCEPT
                            !.pc = "read", !.cmd = "get", !.name = n]]
    /\ UNCHANGED <<cfgVars, out, disk, keyring, keyfile, hist>>

\* Store::read at the start of Commands::Add and Commands::Get.
ReadStore(p) ==
    /\ proc[p].pc = "read"
    /\ LET r == StoreRead(disk)
       IN  proc' = [proc EXCEPT ![p] =
                IF r.ok
                THEN [@ EXCEPT !.pc = IF proc[p].cmd = "add" THEN "add" ELSE "decrypt",
                               !.vars = r.value, !.loaded = r.value]
                ELSE [@ EXCEPT !.pc = "idle", !.res = [status |-> "panic"]]]
    /\ UNCHANGED <<cfgVars, out, disk, keyring, keyfile, hist>>

\* The match of Commands::Add with the overwrite flag ignored.
ShouldAddAlways(is_used, overwrite) == TRUE

\* The match (is_used, overwrite) of Commands::Add: store.add is called unless
\* the name is used and --overwrite is not given.
ShouldAdd(is_used, overwrite) == ~is_used \/ overwrite

\* Commands::Add between Store::read and save_to_disk: the name is upper-cased,
\* and Store::add inserts encrypt(value) under it.
AddStep(p) ==
    /\ proc[p].pc = "add"
    /\ LET name == ToUpper(proc[p].name)
           is_used == StoreGet(proc[p].vars, name).some
       IN  IF ShouldAdd(is_used, proc[p].overwrite)
           THEN \E fresh \in Keys, nonce \in Nonces :
                  LET e == Encrypt(keyring, keyfile, fresh, nonce, proc[p].value)
                      others == DOMAIN proc[p].vars \ {name}
                  IN  /\ proc' = [proc EXCEPT ![p].pc = "save",
                                   ![p].vars = (name :> e.stored) @@
                                               [n \in others |-> proc[p].vars[n]]]
                      /\ keyring' = e.keyring
                      /\ keyfile' = e.keyfile
                      /\ hist' = [generated |-> hist.generated + (IF e.generated THEN 1 ELSE 0),
                                  last |-> [proc |-> p, name |-> name, value |-> proc[p].value,
                                            stored |-> e.stored, key |-> e.key],
                                  saver |-> hist.saver]
           ELSE /\ proc' = [proc EXCEPT ![p].pc = "save"]
                /\ UNCHANGED <<keyring, keyfile, hist>>
    /\ UNCHANGED <<cfgVars, out, disk>>

\* Store::save_to_disk up to the open of std::fs::write: the map is serialized
\* and the store file is created or truncated to length zero.
SaveOpen(p) ==
    /\ proc[p].pc = "save"
    /\ \E text \in Serializations(proc[p].vars) :
         proc' = [proc EXCEPT ![p].pc = "write", ![p].text = text, ![p].pos = 0]
    /\ disk' = File(<<>>)
    /\ UNCHANGED <<cfgVars, out, keyring, keyfile, hist>>

Hole == <<"">>

\* A write of one token at the writer's own offset.
WriteAt(file, pos, token) ==
    LET cur == file.text
    IN  File([i \in 1..(IF pos + 1 > Len(cur) THEN pos + 1 ELSE Len(cur)) |->
                IF i = pos + 1 THEN token
                ELSE IF i <= Len(cur) THEN cur[i] ELSE Hole])

\* The write_all of std::fs::write, one piece of the text at a time; the
\* command ends when the last piece is written.
SaveWrite(p) ==
    /\ proc[p].pc = "write"
    /\ disk' = WriteAt(disk, proc[p].pos, proc[p].text[proc[p].pos + 1])
    /\ IF proc[p].pos + 1 < Len(proc[p].text)
       THEN /\ proc' = [proc EXCEPT ![p].pos = @ + 1]
            /\ UNCHANGED hist
       ELSE /\ proc' = [proc EXCEPT ![p].pc = "idle", ![p].pos = @ + 1,
                                     ![p].res = [status |-> "ok"]]
            /\ hist' = [hist EXCEPT !.saver = p]
    /\ UNCHANGED <<cfgVars, out, keyring, keyfile>>

\* Commands::Get after Store::read: the upper-cased name is looked up and the
\* entry decrypted; a missing name or a decrypt error ends the run with a failure.
GetStep(p) ==
    /\ proc[p].pc = "decrypt"
    /\ LET name == ToUpper(proc[p].name)
           entry == StoreGet(proc[p].vars, name)
           d == IF entry.some THEN Decrypt(keyring, keyfile, entry.value)
                ELSE Err("NotFound")
       IN  proc' = [proc EXCEPT ![p].pc = "idle",
                        ![p].res = IF d.ok THEN [status |-> "ok", printed |-> d.value]
                                   ELSE [status |-> "failed", error |-> d.error]]
    /\ UNCHANGED <<cfgVars, out, disk, keyring, keyfile, hist>>

\* The process is killed (or the machine stops) between two steps of a run.
Crash(p) ==
    /\ proc[p].pc \in {"read", "add", "decrypt", "save", "write"}
    /\ proc' = [proc EXCEPT ![p].pc = "idle", ![p].res = [status |-> "killed"]]
    /\ UNCHANGED <<cfgVars, out, disk, keyring, keyfile, hist>>

\* The key storage the claims range over: a keyring that can or cannot be read
\* and written, holding a key or nothing; a key file that is absent, holds
\* KeyLen bytes, or has another length.
KeyringStates == [readable : BOOLEAN, writable : BOOLEAN, secret : {NoSecret} \cup Keys]
KeyfileStates ==
    {NoKeyFile} \cup {KeyFile(k) : k \in Keys}
                \cup {[exists |-> TRUE, len |-> KeyLen - 1, key |-> NoSecret]}

\* A value stored by an earlier run: "p" under key k1.
OldStored == B64Encode(Concat("n1", Seal("k1", "n1", AsBytes("p"))))

DiskStates ==
    {NoFile} \cup {File(t) : t \in Serializations(EmptyMap)
                                   \cup Serializations(<<"X">> :> OldStored)}

CfgIdle ==
    /\ config = [dirs |-> <<>>, profile |-> EmptyMap, project |-> EmptyMap]
    /\ cwd = <<Slash>>
    /\ env = {}
    /\ arg = NoArg
    /\ out = NoOut

InitStore ==
    /\ CfgIdle
    /\ disk \in DiskStates
    /\ keyring \in KeyringStates
    /\ keyfile \in KeyfileStates
    /\ proc = [p \in Procs |-> IdleProc(IF p = "p1" THEN MaxRuns ELSE 0)]
    /\ hist = NoHist

NextStore ==
    \E p \in Procs :
        \/ Start(p)
        \/ ReadStore(p)
        \/ AddStep(p)
        \/ SaveOpen(p)
        \/ SaveWrite(p)
        \/ GetStep(p)
        \/ Crash(p)

SpecStore == InitStore /\ [][NextStore]_vars

\* The upper-cased name of the run of process p.
NameOf(p) == ToUpper(proc[p].name)

\* Process p is past Store::add of an `add` run that was not killed.
PastAdd(p) ==
    /\ proc[p].cmd = "add"
    /\ \/ proc[p].pc \in {"save", "write"}
       \/ proc[p].pc = "idle" /\ proc[p].res.status = "ok"

\* C4: what Store::add stored under a name decrypts, with the key storage as
\* encrypt left it, to the plaintext that was added: in the store in memory
\* right after the add, and in a later `get` that reads that entry from disk.
C4_RoundTrip ==
    \A p \in Procs :
        /\ (PastAdd(p) /\ (NameOf(p) \notin DOMAIN proc[p].loaded \/ proc[p].overwrite)) =>
              /\ NameOf(p) \in DOMAIN proc[p].vars
              /\ Decrypt(keyring, keyfile, proc[p].vars[NameOf(p)]) = Ok(proc[p].value)
        /\ ( /\ proc[p].cmd = "get"
             /\ proc[p].pc = "idle"
             /\ proc[p].res.status \in {"ok", "failed"}
             /\ hist.last.proc # "none"
             /\ NameOf(p) = hist.last.name
             /\ NameOf(p) \in DOMAIN proc[p].vars
             /\ proc[p].vars[NameOf(p)] = hist.last.stored ) =>
              proc[p].res = [status |-> "ok", printed |-> hist.last.value]

\* A `get` prints the value an earlier `add` stored under a key that the add
\* had to create, with a keyring that accepts writes and refuses reads.
C4_Witness ==
    /\ proc["p1"].cmd = "get"
    /\ proc["p1"].res = [status |-> "ok", printed |-> "q"]
    /\ hist.generated = 1
    /\ hist.last.value = "q"
    /\ keyring.writable /\ ~keyring.readable

\* C5: an `add` run leaves every entry under another name as it was loaded;
\* with the name present and no --overwrite the map it saves is the map it
\* loaded; the entry is replaced only with --overwrite and inserted only when
\* absent; the file a completed run leaves holds exactly that map.
C5_NoImplicitOverwrite ==
    \A p \in Procs : PastAdd(p) =>
        LET N == NameOf(p)
            loaded == proc[p].loaded
            svars == proc[p].vars
        IN  /\ DOMAIN svars = DOMAIN loaded \cup {N}
            /\ \A n \in DOMAIN loaded \ {N} : svars[n] = loaded[n]
            /\ (N \in DOMAIN loaded /\ ~proc[p].overwrite) => svars = loaded
            /\ (N \in DOMAIN loaded /\ proc[p].overwrite) =>
                   Decrypt(keyring, keyfile, svars[N]) = Ok(proc[p].value)
            /\ proc[p].pc = "write" => proc[p].text \in Serializations(svars)
            /\ proc[p].pc = "idle" => StoreRead(disk) = Ok(svars)

\* `add x q` without --overwrite on a store that holds X: the run completes
\* and the file still holds the old ciphertext of X.
C5_Witness ==
    /\ PastAdd("p1")
    /\ proc["p1"].pc = "idle"
    /\ proc["p1"].name = <<"x">>
    /\ proc["p1"].value = "q"
    /\ ~proc["p1"].overwrite
    /\ proc["p1"].loaded = (<<"X">> :> OldStored)
    /\ StoreRead(disk) = Ok(<<"X">> :> OldStored)

\* C6 as stated: whenever no run is in progress (each has completed or was
\* stopped at some point), the store file is absent or a complete store that
\* Store::read parses.
C6_CrashSafe ==
    (\A p \in Procs : proc[p].pc = "idle") => StoreRead(disk).ok

\* One step of the model is a step of a run of process p from pc `from`.
StepOf(p, from) == proc[p].pc = from /\ proc'[p].pc # from

\* C10: a key is generated only by the Store::add of an `add` run and only
\* when get_key finds none; the key storage is written only then; a `get`
\* with no readable key fails with the keyring error; and once get_key finds a
\* key, it finds that same key ever after, and every encrypt uses it.
C10_KeyLifecycle ==
    [][ /\ hist'.generated # hist.generated =>
              /\ \E p \in Procs : proc[p].cmd = "add" /\ StepOf(p, "add")
              /\ ~GetKey(keyring, keyfile).ok
              /\ hist'.generated = hist.generated + 1
        /\ (keyring' # keyring \/ keyfile' # keyfile) => hist'.generated # hist.generated
        /\ GetKey(keyring, keyfile).ok => GetKey(keyring', keyfile') = GetKey(keyring, keyfile)
        /\ hist'.last # hist.last => GetKey(keyring', keyfile') = Ok(hist'.last.key)
        /\ \A p \in Procs :
              ( /\ StepOf(p, "decrypt")
                /\ proc'[p].res.status # "killed"
                /\ NameOf(p) \in DOMAIN proc[p].vars
                /\ ~GetKey(keyring, keyfile).ok ) =>
                   proc'[p].res = [status |-> "failed", error |-> "Keyring"]
      ]_vars

\* A key was generated once, persisted to the key file because the keyring
\* cannot be used, and a later `get` decrypted with it.
C10_Witness ==
    /\ hist.generated = 1
    /\ ~keyring.readable /\ ~keyring.writable
    /\ keyfile = KeyFile(hist.last.key)
    /\ proc["p1"].cmd = "get"
    /\ proc["p1"].res.status = "ok"

----------------------------------------------------------------------------
(* Inputs of the directory resolution.                                     *)

PathNames == {<<"w">>, <<"w", "b">>, <<"a">>}

\* The absolute paths of exactly n components below "/".
RECURSIVE PathsAt(_)
PathsAt(n) ==
    IF n = 0 THEN {<<>>}
    ELSE {p \o <<Slash>> \o c : p \in PathsAt(n - 1), c \in PathNames}

CwdPaths == {<<Slash>>} \cup UNION {PathsAt(n) : n \in 1..MaxDepth}

RootStrings ==
    { <<"/">>, <<"/", "w">>, <<"/", "w", "b">>, <<"/", "a">>,
      <<"/", "w", "/", "a">>, <<"/", "w", "/", "w">>, <<"/", "w", "b", "/", "a">>,
      <<"~">>, <<"~", "/", "a">>, <<"/", "w", "/">> }

\* The store is not touched by the commands that only read the config.
StoreIdle ==
    /\ disk = NoFile
    /\ keyring = [readable |-> FALSE, writable |-> FALSE, secret |-> NoSecret]
    /\ keyfile = NoKeyFile
    /\ proc = [p \in Procs |-> IdleProc(0)]
    /\ hist = NoHist

InitDir ==
    /\ config \in {[dirs |-> d, profile |-> EmptyMap, project |-> EmptyMap] :
                     d \in SeqsUpTo(RootStrings, MaxRoots)}
    /\ cwd \in CwdPaths
    /\ env = {}
    /\ arg = NoArg
    /\ out = NoOut
    /\ StoreIdle

\* `cryptenv project` (Commands::Project): prints the project of cwd or fails.
CmdProject ==
    /\ out = NoOut
    /\ LET dir == GetProjectDir(config, cwd)
       IN  out' = [op |-> "project", dir |-> dir,
                   exit |-> IF dir.some THEN 0 ELSE 1]
    /\ UNCHANGED <<cfgVars, storeVars>>

NextDir == CmdProject

SpecDir == InitDir /\ [][NextDir]_vars

\* R is a proper ancestor of C: every component of R, then at least one more.
ProperAncestor(R, C) ==
    /\ Len(R) < Len(C)
    /\ \A i \in 1..Len(R) : C[i] = R[i]

\* C2: with a single root R, `project` answers Some(c) exactly when the
\* components of R are a strict prefix of the components of cwd, and c is then
\* the component of cwd right below R; a raw string prefix is not enough.
C2_ComponentMatch ==
    (out.op = "project" /\ Len(config.dirs) = 1) =>
        LET R == Components(Tilde(config.dirs[1]))
            C == Components(cwd)
        IN  /\ out.dir.some <=> ProperAncestor(R, C)
            /\ out.dir.some => out.dir.value = C[Len(R) + 1]

\* Root /w, cwd /wb/a: the root is a raw prefix of cwd and not an ancestor,
\* and the answer is "not in a project".
C2_Witness ==
    /\ out.op = "project"
    /\ config.dirs = << <<"/", "w">> >>
    /\ cwd = <<"/", "w", "b", "/", "a">>
    /\ StartsWithRaw(cwd, config.dirs[1])
    /\ ~out.dir.some

\* C3 as stated: the first root (in declared order) that is a proper ancestor
\* of cwd decides, a root equal to cwd is passed over, and the answer is "not
\* in a project" only when no root is a proper ancestor of cwd.
C3_FirstProperAncestor ==
    out.op = "project" =>
        LET C == Components(cwd)
            roots == Dirs(config)
            hits == {i \in DOMAIN roots : ProperAncestor(Components(roots[i]), C)}
        IN  IF hits = {} THEN out.dir = None
            ELSE LET first == CHOOSE i \in hits : \A j \in hits : i <= j
                 IN  out.dir = Some(C[Len(Components(roots[first])) + 1])

----------------------------------------------------------------------------
(* The configuration (src/config.rs) and the resolution of a project's     *)
(* variables (src/project.rs).                                             *)
(*   config.profile : profile name -> (variable name -> secret name)       *)
(*   config.project : project key -> ProjectValue                          *)

\* ProjectValue::Config(ProjectConfig { profiles, vars })
PVConfig(profiles, pvars) == [kind |-> "Config", profiles |-> profiles, vars |-> pvars]
\* ProjectValue::Profiles(Vec<String>)
PVProfiles(profiles) == [kind |-> "Profiles", profiles |-> profiles]

\* Config::get_profile
GetProfile(c, name) ==
    IF name \in DOMAIN c.profile THEN Some(c.profile[name]) ELSE None

\* The two arms of the match in get_project_config and get_project_configs:
\* a bare profile list becomes a ProjectConfig with no direct vars.
ToProjectConfig(pv) ==
    IF pv.kind = "Config"
    THEN [profiles |-> pv.profiles, vars |-> pv.vars]
    ELSE [profiles |-> pv.profiles, vars |-> EmptyMap]

\* Config::get_project_config: an exact lookup of `name` in the project table.
GetProjectConfig(c, name) ==
    IF name \in DOMAIN c.project THEN Some(ToProjectConfig(c.project[name])) ELSE None

\* A profile merged into the project with no contains_key test: the profile's
\* binding replaces the one already there.
MergeProfileOverwrite(pvars, profile) ==
    [k \in DOMAIN pvars \cup DOMAIN profile |->
        IF k \in DOMAIN profile THEN profile[k] ELSE pvars[k]]

\* The inner loop of from_project_config: each (key, value) of the profile is
\* inserted unless project.vars already contains the key.
MergeProfile(pvars, profile) ==
    [k \in DOMAIN pvars \cup DOMAIN profile |->
        IF k \in DOMAIN pvars THEN pvars[k] ELSE profile[k]]

\* The outer loop of from_project_config over project_config.profiles, in
\* listed order; a name get_profile does not know contributes nothing.
RECURSIVE MergeProfiles(_, _, _)
MergeProfiles(c, pvars, profiles) ==
    IF profiles = <<>> THEN pvars
    ELSE LET profile == GetProfile(c, Head(profiles))
         IN  MergeProfiles(c,
                 IF profile.some THEN MergeProfile(pvars, profile.value) ELSE pvars,
                 Tail(profiles))

\* Project::from_project_config
FromProjectConfig(name, c) ==
    LET project_config == GetProjectConfig(c, name)
    IN  IF ~project_config.some THEN None
        ELSE Some(MergeProfiles(c, project_config.value.vars,
                                project_config.value.profiles))

----------------------------------------------------------------------------
(* Inputs of the variable resolution.                                      *)

VarNames == {"A", "B"}
SecretX == <<"X">>
SecretY == <<"Y">>
ProfileNames == {"p1", "p2"}
UnknownProfile == "p3"

PartialMaps(D, R) == UNION {[S -> R] : S \in SUBSET D}

Bindings == PartialMaps(VarNames, {SecretX, SecretY})

ProfileRefs == SeqsUpTo(ProfileNames \cup {UnknownProfile}, MaxProfileRefs)

ProjectValues ==
    {PVConfig(ps, vs) : ps \in ProfileRefs, vs \in Bindings}
        \cup {PVProfiles(ps) : ps \in ProfileRefs}

KeySvc == <<"s", "v", "c">>
KeyApi == <<"a", "p", "i">>

InitVars ==
    /\ config \in {[dirs |-> <<>>, profile |-> pr, project |-> (KeySvc :> pv)] :
                     pr \in [ProfileNames -> Bindings], pv \in ProjectValues}
    /\ cwd = <<Slash>>
    /\ env = {}
    /\ arg \in {KeySvc, KeyApi}
    /\ out = NoOut
    /\ StoreIdle

\* `cryptenv variables <project>` (Commands::Variables with a name):
\* Project::get_by_name, then the secret names of the resolved project.
CmdVariables ==
    /\ out = NoOut
    /\ arg # NoArg
    /\ LET p == FromProjectConfig(arg, config)
       IN  out' = [op |-> "variables", project |-> p,
                   lines |-> IF p.some THEN Range(p.value) ELSE {},
                   exit |-> IF p.some THEN 0 ELSE 1]
    /\ UNCHANGED <<cfgVars, storeVars>>

NextVars == CmdVariables

SpecVars == InitVars /\ [][NextVars]_vars

\* The profiles a project lists that the config defines, by position.
KnownAt(c, refs) == {i \in DOMAIN refs : refs[i] \in DOMAIN c.profile}

\* C1: the resolved mapping holds every direct binding of the project and, for
\* each other variable, the binding of the earliest listed profile that has
\* it; nothing else. A direct binding wins over any profile, an earlier
\* profile over a later one.
C1_Precedence ==
    (out.op = "variables" /\ arg \in DOMAIN config.project) =>
        LET pv == config.project[arg]
            direct == IF pv.kind = "Config" THEN pv.vars ELSE EmptyMap
            refs == pv.profiles
            has(v) == {i \in KnownAt(config, refs) : v \in DOMAIN config.profile[refs[i]]}
            m == out.project.value
        IN  /\ out.project.some
            /\ DOMAIN m = DOMAIN direct \cup {v \in VarNames : has(v) # {}}
            /\ \A v \in DOMAIN m :
                 IF v \in DOMAIN direct THEN m[v] = direct[v]
                 ELSE LET first == CHOOSE i \in has(v) : \A j \in has(v) : i <= j
                      IN  m[v] = config.profile[refs[first]][v]

\* The example of the claim, on two variables: direct {A: X}, profiles
\* [p1 = {A: Y, B: X}, p2 = {B: Y}] resolve to {A: X, B: X}.
C1_Witness ==
    /\ out.op = "variables"
    /\ arg = KeySvc
    /\ config.project[KeySvc] = PVConfig(<<"p1", "p2">>, [v \in {"A"} |-> SecretX])
    /\ config.profile["p1"] = ("A" :> SecretY) @@ ("B" :> SecretX)
    /\ config.profile["p2"] = [v \in {"B"} |-> SecretY]
    /\ out.project = Some(("A" :> SecretX) @@ ("B" :> SecretX))

----------------------------------------------------------------------------
(* `cryptenv check` (Commands::Check).                                     *)

ProjectPrefix == <<"p", "r", "o", "j", "e", "c", "t", ".">>

\* str::strip_prefix("project.")
StripPrefix(key) == SubSeq(key, Len(ProjectPrefix) + 1, Len(key))

\* The filter of get_project_configs and of unset: the keys of the project
\* table that start with "project.".
ScannedKeys(c) == {k \in DOMAIN c.project : IsPrefix(ProjectPrefix, k)}

\* Config::get_project_configs: the scanned entries under their stripped names.
GetProjectConfigs(c) ==
    [name \in {StripPrefix(k) : k \in ScannedKeys(c)} |->
        ToProjectConfig(c.project[ProjectPrefix \o name])]

\* The lines Commands::Check prints for missing secrets: one for each direct
\* variable of a scanned project whose secret name is not in the store, and one
\* for each variable of each listed, defined profile whose secret name is not
\* in the store. `at` is the position of the profile in the list (0: direct).
CheckFindings(c, svars) ==
    LET pcs == GetProjectConfigs(c)
    IN  UNION {
          {[project |-> name, var |-> v, secret |-> pcs[name].vars[v],
            profile |-> "", at |-> 0] :
              v \in {w \in DOMAIN pcs[name].vars :
                        ~StoreGet(svars, pcs[name].vars[w]).some}}
          \cup UNION {
             LET profile_name == pcs[name].profiles[i]
                 profile == GetProfile(c, profile_name)
             IN  IF ~profile.some THEN {}
                 ELSE {[project |-> name, var |-> v, secret |-> profile.value[v],
                        profile |-> profile_name, at |-> i] :
                          v \in {w \in DOMAIN profile.value :
                                    ~StoreGet(svars, profile.value[w]).some}}
             : i \in DOMAIN pcs[name].profiles}
          : name \in DOMAIN pcs}

\* The "warning - profile ... not found" lines of Commands::Check.
CheckWarnings(c) ==
    LET pcs == GetProjectConfigs(c)
    IN  UNION {
          {[project |-> name, profile |-> pcs[name].profiles[i], at |-> i] :
              i \in {j \in DOMAIN pcs[name].profiles :
                        ~GetProfile(c, pcs[name].profiles[j]).some}}
          : name \in DOMAIN pcs}

\* found_error set by the warning for an undefined profile as well.
FoundErrorWithWarnings(findings, warnings) == findings # {} \/ warnings # {}

\* found_error of Commands::Check: set where a missing secret is printed.
FoundError(findings, warnings) == findings # {}

\* Commands::Check; Store::read panics on a store file that does not parse.
CmdCheck ==
    /\ out = NoOut
    /\ arg = NoArg
    /\ LET store == StoreRead(disk)
           findings == CheckFindings(config, store.value)
           warnings == CheckWarnings(config)
       IN  out' = IF ~store.ok
                  THEN [op |-> "check", findings |-> {}, warnings |-> {}, exit |-> PanicExit]
                  ELSE [op |-> "check", findings |-> findings, warnings |-> warnings,
                        exit |-> IF FoundError(findings, warnings) THEN 1 ELSE 0]
    /\ UNCHANGED <<cfgVars, storeVars>>

KeyPApi == ProjectPrefix \o KeyApi

\* Tables of at most two projects: one under a key that starts with
\* "project." and one under a plain key as `[project.svc]` gives it.
PlainValues ==
    { PVConfig(<<>>, [v \in {"A"} |-> SecretX]),
      PVConfig(<<UnknownProfile>>, EmptyMap),
      PVProfiles(<<"p1">>) }

ProjectTables ==
    {EmptyMap} \cup {KeyPApi :> pv : pv \in ProjectValues}
               \cup {KeySvc :> qv : qv \in PlainValues}
               \cup {(KeyPApi :> pv) @@ (KeySvc :> qv) :
                        pv \in ProjectValues, qv \in PlainValues}

StoredSets == SUBSET {SecretX, SecretY}

\* The store files the config commands find: a store of some of the secret
\* names, or the empty file an interrupted save_to_disk leaves.
StoreFiles ==
    {File(<<>>)} \cup
    {File(t) : t \in UNION {Serializations([n \in S |-> OldStored]) : S \in StoredSets}}

InitCheck ==
    /\ config \in {[dirs |-> <<>>, profile |-> ("p1" :> b) @@ ("p2" :> [v \in {"B"} |-> SecretY]),
                    project |-> t] : b \in Bindings, t \in ProjectTables}
    /\ cwd = <<Slash>>
    /\ env = {}
    /\ arg = NoArg
    /\ out = NoOut
    /\ disk \in StoreFiles
    /\ keyring = [readable |-> TRUE, writable |-> TRUE, secret |-> "k1"]
    /\ keyfile = NoKeyFile
    /\ proc = [p \in Procs |-> IdleProc(0)]
    /\ hist = NoHist

NextCheck == CmdCheck

SpecCheck == InitCheck /\ [][NextCheck]_vars

\* The secret names in the store file.
StoredNames == IF StoreRead(disk).ok THEN DOMAIN StoreRead(disk).value ELSE {}

\* The (project key, secret name) pairs the consistency check is to report:
\* for every key of the project table, the secret names of its resolved
\* mapping that the store lacks.
MissingPairs ==
    UNION {{<<k, s>> : s \in Range(FromProjectConfig(k, config).value) \ StoredNames} :
              k \in DOMAIN config.project}

\* C7 as stated: the findings are, one each, the pairs of a declared project
\* and a secret name of its resolved mapping that is absent from the store.
C7_CheckCoversResolved ==
    (out.op = "check" /\ out.exit # PanicExit) =>
        /\ {<<ProjectPrefix \o f.project, f.secret>> : f \in out.findings} = MissingPairs
        /\ Cardinality(out.findings) = Cardinality(MissingPairs)

\* The profiles a project lists that the config defines.
KnownRefs(c, refs) == SelectSeq(refs, LAMBDA r : r \in DOMAIN c.profile)

\* C8 as stated, for the projects the check scans: a project that lists an
\* undefined profile makes the check end with a failing exit status.
C8_UnknownProfileFatal ==
    (out.op = "check" /\ out.exit # PanicExit /\ \E k \in ScannedKeys(config) :
        \E r \in Range(config.project[k].profiles) : r \notin DOMAIN config.profile) =>
            out.exit # 0

\* C8 amended: an undefined profile is reported by the check as a warning, for
\* each project the check scans, and is no finding: with a store file that
\* can be read, the exit status is nonzero exactly when a finding (a secret
\* name missing from the store) was printed. In resolution the undefined
\* profile is not fatal and contributes nothing.
C8_UnknownProfileWarns ==
    out.op = "check" =>
        /\ out.exit = (IF ~StoreRead(disk).ok THEN PanicExit
                       ELSE IF out.findings = {} THEN 0 ELSE 1)
        /\ \A f \in out.findings : f.secret \notin StoredNames
                                   /\ (f.at > 0 => f.profile \in DOMAIN config.profile)
        /\ StoreRead(disk).ok =>
             \A k \in ScannedKeys(config) :
               \A i \in DOMAIN config.project[k].profiles :
                  LET r == config.project[k].profiles[i]
                  IN  r \notin DOMAIN config.profile <=>
                        [project |-> StripPrefix(k), profile |-> r, at |-> i] \in out.warnings
        /\ \A k \in DOMAIN config.project :
             LET pv == config.project[k]
                 known == [pv EXCEPT !.profiles = KnownRefs(config, pv.profiles)]
                 resolved == FromProjectConfig(k, config)
             IN  /\ resolved.some
                 /\ resolved = FromProjectConfig(k, [config EXCEPT !.project[k] = known])

\* The check has scanned a project that lists only an undefined profile and
\* whose secrets are all stored: a warning, no finding, exit status 0.
C8_Witness ==
    /\ out.op = "check"
    /\ KeyPApi \in DOMAIN config.project
    /\ config.project[KeyPApi] = PVConfig(<<UnknownProfile>>, [v \in {"A"} |-> SecretX])
    /\ SecretX \in StoredNames
    /\ out.warnings = {[project |-> KeyApi, profile |-> UnknownProfile, at |-> 1]}
    /\ out.findings = {}
    /\ out.exit = 0

----------------------------------------------------------------------------
(* `cryptenv load <shell>` (Commands::Load): Config::unset, then            *)
(* Project::to_shell.                                                      *)

\* The variable names unset collects from one project entry: its direct vars
\* and the variables of the profiles it lists that the config defines.
KeysOfEntry(c, pv) ==
    LET pc == ToProjectConfig(pv)
    IN  DOMAIN pc.vars
          \cup UNION {DOMAIN c.profile[pc.profiles[i]] :
                        i \in {j \in DOMAIN pc.profiles : pc.profiles[j] \in DOMAIN c.profile}}

\* all_keys of Config::unset: collected over the project entries whose key
\* starts with "project.".
AllKeys(c) == UNION {KeysOfEntry(c, c.project[k]) : k \in ScannedKeys(c)}

\* The variables Config::unset prints an unset statement for: the collected
\* keys that are set in the environment.
UnsetKeys(c, environ) == {k \in AllKeys(c) : k \in DOMAIN environ}

UnsetStmt(var) == [cmd |-> "unset", var |-> var, value |-> ""]
ExportStmt(var, value) == [cmd |-> "export", var |-> var, value |-> value]

\* Project::get_from_cwd().unwrap_or_default()
ProjectFromCwd(c, current_dir) ==
    LET dir == GetProjectDir(c, current_dir)
        project == IF dir.some THEN FromProjectConfig(dir.value, c) ELSE None
    IN  IF project.some THEN project.value ELSE EmptyMap

\* Store::get_decrypted_or_exit: the plaintext, or the error the process
\* exits on ("NotFound" or a DecryptError).
GetDecrypted(svars, kr, kf, name) ==
    LET encrypted == StoreGet(svars, name)
    IN  IF ~encrypted.some THEN Err("NotFound")
        ELSE Decrypt(kr, kf, encrypted.value)

\* Commands::Load: Store::read panics on a store file that does not parse,
\* before anything is printed. The unset statements are printed first;
\* to_shell then decrypts every secret of the project and exits with status 1 at
\* the first that is missing or does not decrypt, else its export statements
\* are printed.
CmdLoad ==
    /\ out = NoOut
    /\ arg = NoArg
    /\ LET store == StoreRead(disk)
           project == ProjectFromCwd(config, cwd)
           value(v) == GetDecrypted(store.value, keyring, keyfile, project[v])
           failed == \E v \in DOMAIN project : ~value(v).ok
       IN  IF ~store.ok
           THEN out' = [op |-> "load", project |-> project, stdout |-> <<>>,
                        exit |-> PanicExit]
           ELSE \E uo \in Orders(UnsetKeys(config, env)), eo \in Orders(DOMAIN project) :
                  out' = [op |-> "load",
                          project |-> project,
                          stdout |-> [i \in DOMAIN uo |-> UnsetStmt(uo[i])]
                                     \o (IF failed THEN <<>>
                                         ELSE [i \in DOMAIN eo |->
                                                  ExportStmt(eo[i], value(eo[i]).value)]),
                          exit |-> IF failed THEN 1 ELSE 0]
    /\ UNCHANGED <<cfgVars, storeVars>>

KeyA == <<"a">>
KeyPA == ProjectPrefix \o KeyA

LoadValues ==
    { PVConfig(<<>>, [v \in {"A"} |-> SecretX]),
      PVConfig(<<"p1">>, [v \in {"B"} |-> SecretX]),
      PVConfig(<<UnknownProfile>>, [v \in {"A"} |-> SecretY]),
      PVProfiles(<<"p1">>) }

LoadTables ==
    {[k \in K |-> t[k]] : K \in SUBSET {KeyA, KeyPA, KeySvc}, t \in [{KeyA, KeyPA, KeySvc} -> LoadValues]}

LoadCwds == {<<Slash>>, <<Slash, "w", Slash>> \o KeyA, <<Slash, "w", Slash>> \o KeyPA}

InitLoad ==
    /\ config \in {[dirs |-> << <<Slash, "w">> >>,
                    profile |-> ("p1" :> b) @@ ("p2" :> [v \in {"B"} |-> SecretY]),
                    project |-> t] :
                     b \in PartialMaps(VarNames, {SecretX}), t \in LoadTables}
    /\ cwd \in LoadCwds
    /\ env \in PartialMaps(VarNames, {"old"})
    /\ arg = NoArg
    /\ out = NoOut
    /\ disk \in StoreFiles
    /\ keyring \in {[readable |-> TRUE, writable |-> TRUE, secret |-> k] : k \in Keys}
    /\ keyfile = NoKeyFile
    /\ proc = [p \in Procs |-> IdleProc(0)]
    /\ hist = NoHist

NextLoad == CmdLoad

SpecLoad == InitLoad /\ [][NextLoad]_vars

\* The environment of the shell after it evaluates the statements in order.
RECURSIVE EvalShell(_, _)
EvalShell(environ, stmts) ==
    IF stmts = <<>> THEN environ
    ELSE LET st == Head(stmts)
             rest == DOMAIN environ \ {st.var}
             next == IF st.cmd = "export"
                     THEN (st.var :> st.value) @@ [v \in rest |-> environ[v]]
                     ELSE [v \in rest |-> environ[v]]
         IN  EvalShell(next, Tail(stmts))

\* The variable names the projects of the config declare: the direct bindings
\* of any project and the variables of the profiles that projects list.
DeclaredVars(c) ==
    UNION {KeysOfEntry(c, c.project[k]) : k \in DOMAIN c.project}

\* C9 as stated, for the variables that projects declare: after the output of
\* a successful load is evaluated, every variable of the project resolved for
\* cwd holds the decrypted value of its secret, and no other declared variable
\* is still set.
C9_LoadLeavesCleanEnv ==
    (out.op = "load" /\ out.exit = 0) =>
        LET final == EvalShell(env, out.stdout)
            resolved == ProjectFromCwd(config, cwd)
        IN  /\ \A v \in DOMAIN resolved :
                  /\ v \in DOMAIN final
                  /\ Ok(final[v]) = Decrypt(keyring, keyfile, StoreRead(disk).value[resolved[v]])
            /\ \A v \in DeclaredVars(config) \ DOMAIN resolved : v \notin DOMAIN final

----------------------------------------------------------------------------
(* Store::get_decrypted_or_exit and decrypt on arbitrary stored strings.   *)

\* A stored string that is not base64.
NotBase64 == [b64 |-> FALSE, data |-> [len |-> 0]]

\* Bytes that are not valid UTF-8.
BinaryBytes == [utf8 |-> FALSE, text |-> "", len |-> 1]

\* n bytes that no key and nonce produced as AEAD output (among them every
\* sequence shorter than the tag, the empty one included).
Garbage(n) == [key |-> NoSecret, nonce |-> NoSecret, bytes |-> BinaryBytes, len |-> n]

\* Decoded data of n < NonceLen bytes: no whole nonce, nothing after it.
Short(n) == [len |-> n, nonce |-> NoSecret, rest |-> Garbage(0)]

\* The stored strings by what is wrong with them, for key k.
\* "crypto": no tag, a short or forged tag, another key, or a nonce in front
\* that is not the one the value was sealed with.
StoredOfClass(class, k) ==
    CASE class = "InvalidBase64" -> {NotBase64}
      [] class = "InvalidDataLength" -> {B64Encode(Short(n)) : n \in 0..(NonceLen - 1)}
      [] class = "Crypto" ->
            {B64Encode(Concat(n, Garbage(m))) : n \in Nonces, m \in {0, 1, NonceLen}}
              \cup {B64Encode(Concat(n, Seal(kn[1], kn[2], b))) :
                      n \in Nonces, kn \in {x \in Keys \X Nonces : x[1] # k},
                      b \in {AsBytes(t) : t \in Plaintexts} \cup {BinaryBytes}}
              \cup {B64Encode(Concat(nm[1], Seal(k, nm[2], b))) :
                      nm \in {x \in Nonces \X Nonces : x[1] # x[2]},
                      b \in {AsBytes(t) : t \in Plaintexts} \cup {BinaryBytes}}
      [] class = "Utf8" -> {B64Encode(Concat(n, Seal(k, n, BinaryBytes))) : n \in Nonces}
      [] class = "Plaintext" ->
            {B64Encode(Concat(n, Seal(k, n, AsBytes(t)))) : n \in Nonces, t \in Plaintexts}

DecryptClasses == {"InvalidBase64", "InvalidDataLength", "Crypto", "Utf8", "Plaintext"}

StoredStrings == UNION {StoredOfClass(c, k) : c \in DecryptClasses, k \in Keys}

\* Display for DecryptError, and the message for a name that is not in the store.
ErrorMessage(kind) ==
    CASE kind = "NotFound" -> "variable not found"
      [] kind = "Keyring" -> "failed to read encryption key"
      [] kind = "InvalidBase64" -> "stored value is not valid base64"
      [] kind = "InvalidDataLength" -> "stored value is too short"
      [] kind = "Crypto" -> "decryption failed (wrong key or corrupted data)"
      [] kind = "Utf8" -> "decrypted value is not valid utf8"

\* Store::get_decrypted_or_exit(name) on the store read from the store file:
\* the decrypted value is returned, or a message is printed to stderr and the
\* process exits with status 1.
GetDecryptedOrExit ==
    /\ out = NoOut
    /\ arg # NoArg
    /\ StoreRead(disk).ok
    /\ LET r == GetDecrypted(StoreRead(disk).value, keyring, keyfile, arg)
       IN  out' = IF r.ok
                  THEN [op |-> "get_decrypted", result |-> r, stderr |-> "", exit |-> 0]
                  ELSE [op |-> "get_decrypted", result |-> r,
                        stderr |-> ErrorMessage(r.error), exit |-> 1]
    /\ UNCHANGED <<cfgVars, storeVars>>

\* A key in the keyring, a key in the key file only, or no key at all.
DecryptKeyStates ==
    {<<[readable |-> TRUE, writable |-> TRUE, secret |-> k], NoKeyFile>> : k \in Keys}
      \cup {<<[readable |-> FALSE, writable |-> FALSE, secret |-> NoSecret], KeyFile(k)>> :
              k \in Keys}
      \cup {<<[readable |-> FALSE, writable |-> FALSE, secret |-> NoSecret], NoKeyFile>>}

InitDecrypt ==
    /\ config = [dirs |-> <<>>, profile |-> EmptyMap, project |-> EmptyMap]
    /\ cwd = <<Slash>>
    /\ env = {}
    /\ arg \in {SecretX, SecretY}
    /\ out = NoOut
    /\ disk \in {File(t) : t \in UNION {Serializations(SecretX :> s) : s \in StoredStrings}}
    /\ \E ks \in DecryptKeyStates : keyring = ks[1] /\ keyfile = ks[2]
    /\ proc = [p \in Procs |-> IdleProc(0)]
    /\ hist = NoHist

NextDecrypt == GetDecryptedOrExit

SpecDecrypt == InitDecrypt /\ [][NextDecrypt]_vars

\* C11: with a key that get_key finds, the outcome for a stored string is the
\* one of its class: not base64, fewer than NonceLen bytes, failed tag check,
\* plaintext that is not UTF-8, else the plaintext. Every failure is a value
\* (one of the four kinds, never a panic), the process exits with status 1 on
\* it, and the messages of the four kinds and of "not found" differ pairwise;
\* "not found" is reported exactly for a name that is not in the store.
C11_DecryptClassifies ==
    (out.op = "get_decrypted" /\ GetKey(keyring, keyfile).ok) =>
        LET k == GetKey(keyring, keyfile).value
            svars == StoreRead(disk).value
            kinds == {"NotFound", "InvalidBase64", "InvalidDataLength", "Crypto", "Utf8"}
        IN  /\ arg \notin DOMAIN svars <=> out.result = Err("NotFound")
            /\ arg \in DOMAIN svars =>
                 /\ \E c \in DecryptClasses : svars[arg] \in StoredOfClass(c, k)
                 /\ \A c \in DecryptClasses : svars[arg] \in StoredOfClass(c, k) =>
                      IF c = "Plaintext"
                      THEN /\ out.result.ok
                           /\ svars[arg] = B64Encode(Concat(svars[arg].data.nonce,
                                  Seal(k, svars[arg].data.nonce, AsBytes(out.result.value))))
                      ELSE out.result = Err(c)
            /\ ~out.result.ok =>
                 /\ out.result.error \in kinds
                 /\ out.exit = 1
                 /\ out.stderr = ErrorMessage(out.result.error)
            /\ \A e1, e2 \in kinds : e1 # e2 => ErrorMessage(e1) # ErrorMessage(e2)

\* A stored string of eleven bytes is classified as too short.
C11_Witness ==
    /\ out.op = "get_decrypted"
    /\ GetKey(keyring, keyfile) = Ok("k1")
    /\ arg = SecretX
    /\ StoreRead(disk).value[SecretX] = B64Encode(Short(NonceLen - 1))
    /\ out.result = Err("InvalidDataLength")
    /\ out.exit = 1

----------------------------------------------------------------------------
(* Two cryptenv processes at once, one command each, on the same store     *)
(* file and key.                                                           *)

InitRace ==
    /\ CfgIdle
    /\ disk \in DiskStates
    /\ keyring = [readable |-> TRUE, writable |-> TRUE, secret |-> "k1"]
    /\ keyfile = NoKeyFile
    /\ proc = [p \in Procs |-> IdleProc(1)]
    /\ hist = NoHist

NextRace == NextStore

SpecRace == InitRace /\ [][NextRace]_vars

\* Both processes ran `add`, of different names, and both runs completed.
BothAdded ==
    /\ \A p \in Procs : proc[p].cmd = "add" /\ proc[p].pc = "idle" /\ proc[p].res.status = "ok"
    /\ NameOf("p1") # NameOf("p2")

\* C12 as stated: after two concurrent `add` runs of different names, the
\* store file holds exactly the map of the process whose save_to_disk returned
\* last, and the entry of the other process is in it only if the last saver
\* had loaded it.
C12_LastWriterWins ==
    BothAdded =>
        LET last == hist.saver
            other == CHOOSE p \in Procs : p # last
            final == StoreRead(disk)
            N == NameOf(other)
        IN  /\ final = Ok(proc[last].vars)
            /\ (N \in DOMAIN final.value /\ final.value[N] = proc[other].vars[N]) =>
                  (N \in DOMAIN proc[last].loaded /\ proc[last].loaded[N] = proc[other].vars[N])

----------------------------------------------------------------------------
(* Letter case of secret names: `add` and `get` on the command line, and   *)
(* the secret names that the config binds, in `load`, `export`, `check`.   *)

\* `cryptenv export` (Commands::Export) with no project named: the project of
\* cwd, then Store::read, then one KEY=VALUE line for each binding; the unwrap
\* of store.get panics on a secret name that is not in the store.
CmdExport ==
    /\ out = NoOut
    /\ arg = NoArg
    /\ LET dir == GetProjectDir(config, cwd)
           p == IF dir.some THEN FromProjectConfig(dir.value, config) ELSE None
           store == StoreRead(disk)
           found(v) == StoreGet(store.value, p.value[v])
           value(v) == Decrypt(keyring, keyfile, found(v).value)
       IN  out' =
             IF ~store.ok THEN [op |-> "export", lines |-> {}, exit |-> PanicExit]
             ELSE IF ~p.some THEN [op |-> "export", lines |-> {}, exit |-> 1]
             ELSE IF \E v \in DOMAIN p.value : ~found(v).some
                  THEN [op |-> "export", lines |-> {}, exit |-> PanicExit]
             ELSE IF \E v \in DOMAIN p.value : ~value(v).ok
                  THEN [op |-> "export", lines |-> {}, exit |-> 1]
             ELSE [op |-> "export",
                   lines |-> {[var |-> v, value |-> value(v).value] : v \in DOMAIN p.value},
                   exit |-> 0]
    /\ UNCHANGED <<cfgVars, storeVars>>

\* Secret names as a config file may spell them.
CaseNames == {<<"x">>, <<"X">>, <<"Y">>}

CaseValues ==
    {PVConfig(<<>>, [v \in {"A"} |-> s]) : s \in CaseNames}
      \cup {PVProfiles(<<"p1">>)}

\* One project, declared under the key `load` and `export` look up for cwd
\* and under the key `check` scans; one profile.
InitCase ==
    /\ config \in {[dirs |-> << <<Slash, "w">> >>,
                    profile |-> ("p1" :> [v \in {"B"} |-> s]),
                    project |-> (KeyA :> pv) @@ (KeyPA :> pv)] :
                     s \in CaseNames, pv \in CaseValues}
    /\ cwd = <<Slash, "w", Slash>> \o KeyA
    /\ env = EmptyMap
    /\ arg = NoArg
    /\ out = NoOut
    /\ disk \in DiskStates
    /\ keyring = [readable |-> TRUE, writable |-> TRUE, secret |-> "k1"]
    /\ keyfile = NoKeyFile
    /\ proc = [p \in Procs |-> IdleProc(IF p = "p1" THEN 1 ELSE 0)]
    /\ hist = NoHist

NextCase ==
    \/ NextStore
    \/ CmdLoad
    \/ CmdExport
    \/ CmdCheck

SpecCase == InitCase /\ [][NextCase]_vars

\* The secret names the project of cwd resolves to.
BoundNames == Range(ProjectFromCwd(config, cwd))

\* C13 as stated: every name in the store file is uppercase; `get` finds a
\* stored secret whatever the case of the name typed; and a config binding
\* that names a stored secret in any letter case is found: load and export
\* succeed when every bound name, upper-cased, is in the store, and check
\* reports exactly the bound names whose upper-cased form is not in the store.
C13_CaseNormalized ==
    /\ \A n \in StoredNames : n = ToUpper(n)
    /\ \A p \in Procs :
          (proc[p].cmd = "get" /\ proc[p].pc = "idle" /\ proc[p].res.status \in {"ok", "failed"}) =>
              (proc[p].res.status = "ok" <=> ToUpper(proc[p].name) \in DOMAIN proc[p].vars)
    /\ (out.op \in {"load", "export"} /\ StoreRead(disk).ok) =>
          (out.exit = 0 <=> \A s \in BoundNames : ToUpper(s) \in StoredNames)
    /\ (out.op = "check" /\ StoreRead(disk).ok) =>
          {f.secret : f \in out.findings} = {s \in BoundNames : ToUpper(s) \notin StoredNames}

----------------------------------------------------------------------------
(* What `load` has printed when it fails.                                  *)

\* C14 as stated: a load that exits with status 1, because a secret name of
\* the resolved project is missing from the store or does not decrypt, has
\* printed no statement; a load that exits with status 0 has printed its
\* unset statements and one export statement for each resolved variable.
C14_NoPartialOutput ==
    out.op = "load" =>
        LET resolved == ProjectFromCwd(config, cwd)
            printed == Range(out.stdout)
        IN  /\ out.exit = 1 => out.stdout = <<>>
            /\ out.exit = 0 =>
                 /\ {st.var : st \in {t \in printed : t.cmd = "unset"}} = UnsetKeys(config, env)
                 /\ {st.var : st \in {t \in printed : t.cmd = "export"}} = DOMAIN resolved

====
